---- MODULE Spec2Model ----
(***************************************************************************)
(* Model of reqsign's Azure Storage configuration loader,                  *)
(* src/azure/storage/config.rs: the Config struct and Config::from_env.    *)
(*                                                                         *)
(* A Rust String is modelled as the sequence of its UTF-8 bytes, an        *)
(* Option<T> as a record with a presence flag, the process environment as  *)
(* a table of raw (OS) byte strings and the file system as a table from    *)
(* paths to file contents.                                                 *)
(***************************************************************************)
EXTENDS Integers, Sequences, FiniteSets, TLC

VARIABLES penv, fs, arg, cfg, first, calls, status, reads

vars == <<penv, fs, arg, cfg, first, calls, status, reads>>

(* ---------------------------- bounds ----------------------------------- *)

\* Number of successive from_env calls a caller chains on one configuration.
MaxCalls == 2

\* Seeds carry at most MaxPresent of the eight static fields, or all eight.
MaxPresent == 1

(* ---------------------------- Option<T> -------------------------------- *)

None == [some |-> FALSE, val |-> <<>>]

Some(v) == [some |-> TRUE, val |-> v]

(* ---------------------------- constants -------------------------------- *)

AZURE_FEDERATED_TOKEN == "AZURE_FEDERATED_TOKEN"

AZURE_FEDERATED_TOKEN_FILE == "AZURE_FEDERATED_TOKEN_FILE"

AZURE_TENANT_ID == "AZURE_TENANT_ID_ENV_KEY"

AZURE_AUTHORITY_HOST_ENV_KEY == "AZURE_AUTHORITY_HOST_ENV_KEY"

\* "https://login.microsoftonline.com" as UTF-8 bytes
AZURE_PUBLIC_CLOUD ==
    <<104, 116, 116, 112, 115, 58, 47, 47, 108, 111, 103, 105, 110, 46,
      109, 105, 99, 114, 111, 115, 111, 102, 116, 111, 110, 108, 105, 110,
      101, 46, 99, 111, 109>>

(* ---------------------------- Config ----------------------------------- *)

\* The eight fields from_env has no statement about.
StaticFields ==
    {"account_name", "account_key", "sas_token", "object_id", "client_id",
     "msi_res_id", "msi_secret", "endpoint"}

ConfigFields ==
    StaticFields \cup {"federated_token", "tenant_id", "authority_host"}

\* #[derive(Default)]: every field None.
ConfigDefault == [f \in ConfigFields |-> None]

(* ---------------------------- UTF-8 ------------------------------------ *)

\* Length of the UTF-8 sequence a lead byte announces, 0 for a byte that
\* cannot lead (continuation bytes, 0xC0, 0xC1, 0xF5..0xFF).
Utf8Width(b) ==
    IF b < 128 THEN 1
    ELSE IF b \in 194..223 THEN 2
    ELSE IF b \in 224..239 THEN 3
    ELSE IF b \in 240..244 THEN 4
    ELSE 0

\* Range allowed for the byte that follows lead byte b (no overlong
\* encodings, no surrogates, nothing above U+10FFFF).
Utf8Second(b) ==
    IF b = 224 THEN 160..191
    ELSE IF b = 237 THEN 128..159
    ELSE IF b = 240 THEN 144..191
    ELSE IF b = 244 THEN 128..143
    ELSE 128..191

RECURSIVE Utf8ValidFrom(_, _)
Utf8ValidFrom(s, i) ==
    IF i > Len(s) THEN TRUE
    ELSE LET w == Utf8Width(s[i]) IN
         /\ w > 0
         /\ i + w - 1 <= Len(s)
         /\ w > 1 => s[i + 1] \in Utf8Second(s[i])
         /\ \A k \in (i + 2)..(i + w - 1) : s[k] \in 128..191
         /\ Utf8ValidFrom(s, i + w)

Utf8Valid(s) == Utf8ValidFrom(s, 1)

(* ---------------------------- environment ------------------------------ *)

\* An unrelated variable of the process environment.
OTHER_VAR == "LC_CTYPE"

EnvKeys ==
    {AZURE_FEDERATED_TOKEN_FILE, AZURE_FEDERATED_TOKEN, AZURE_TENANT_ID,
     AZURE_AUTHORITY_HOST_ENV_KEY, OTHER_VAR}

\* The path the token-file variable names: "p".
TokenPath == <<112>>

\* Raw values a variable of the process environment can hold.
EnvValues(k) ==
    IF k = AZURE_FEDERATED_TOKEN_FILE THEN {TokenPath}
    ELSE IF k = AZURE_FEDERATED_TOKEN THEN {<<>>, <<100>>}
    ELSE IF k = AZURE_TENANT_ID THEN {<<105>>}
    ELSE IF k = AZURE_AUTHORITY_HOST_ENV_KEY THEN {<<117>>}
    ELSE {<<255>>}

ProcessEnvs ==
    {e \in [EnvKeys -> {None} \cup {Some(v) : v \in UNION {EnvValues(k) : k \in EnvKeys}}] :
        \A k \in EnvKeys : e[k].some => e[k].val \in EnvValues(k)}

\* Contents a file at TokenPath can have: empty, "f", "e-acute" (two bytes),
\* and a byte string that is not UTF-8.
FileContents == {<<>>, <<102>>, <<195, 169>>, <<255>>}

FileSystems == [{TokenPath} -> {None} \cup {Some(c) : c \in FileContents}]

\* env::vars() panics while iterating when a value is not valid Unicode.
EnvIsUnicode(pe) == \A k \in DOMAIN pe : pe[k].some => Utf8Valid(pe[k].val)

\* env::vars().collect::<HashMap<_, _>>()
env_vars(pe) == [k \in {x \in DOMAIN pe : pe[x].some} |-> pe[k].val]

\* HashMap::get
Get(envs, k) == IF k \in DOMAIN envs THEN Some(envs[k]) ELSE None

(* ---------------------------- file read -------------------------------- *)

Err == [ok |-> FALSE, val |-> <<>>]

Ok(v) == [ok |-> TRUE, val |-> v]

\* fs::read_to_string: fails when the file is missing and when its bytes
\* are not valid UTF-8.
read_to_string(fsys, path) ==
    IF path \notin DOMAIN fsys \/ ~fsys[path].some THEN Err
    ELSE IF Utf8Valid(fsys[path].val) THEN Ok(fsys[path].val)
    ELSE Err

\* Result::unwrap_or_default for String
unwrap_or_default(r) == IF r.ok THEN r.val ELSE <<>>

(* ---------------------------- from_env --------------------------------- *)

\* Variant: the file is consulted only when the seed carries no token.
LoadFederatedTokenFileIfNone(self, envs, fsys) ==
    IF Get(envs, AZURE_FEDERATED_TOKEN_FILE).some /\ ~self.federated_token.some
    THEN [self EXCEPT !.federated_token =
             Some(unwrap_or_default(
                 read_to_string(fsys, Get(envs, AZURE_FEDERATED_TOKEN_FILE).val)))]
    ELSE self

\* Variant: the read is attempted with an empty path when the variable is
\* unset, and its defaulted result assigned.
LoadFederatedTokenFileAlways(self, envs, fsys) ==
    [self EXCEPT !.federated_token =
        Some(unwrap_or_default(
            read_to_string(fsys, Get(envs, AZURE_FEDERATED_TOKEN_FILE).val)))]

\* if let Some(v) = envs.get(AZURE_FEDERATED_TOKEN_FILE) { ... }
LoadFederatedTokenFile(self, envs, fsys) ==
    IF Get(envs, AZURE_FEDERATED_TOKEN_FILE).some
    THEN [self EXCEPT !.federated_token =
             Some(unwrap_or_default(
                 read_to_string(fsys, Get(envs, AZURE_FEDERATED_TOKEN_FILE).val)))]
    ELSE self

\* Whole-file reads one call performs.
FileReadCount(envs) ==
    IF Get(envs, AZURE_FEDERATED_TOKEN_FILE).some THEN 1 ELSE 0

\* Variant: the direct variable only fills a token that is still absent.
LoadFederatedTokenIfNone(self, envs) ==
    IF Get(envs, AZURE_FEDERATED_TOKEN).some /\ ~self.federated_token.some
    THEN [self EXCEPT !.federated_token = Some(Get(envs, AZURE_FEDERATED_TOKEN).val)]
    ELSE self

\* if let Some(v) = envs.get(AZURE_FEDERATED_TOKEN) { ... }
LoadFederatedToken(self, envs) ==
    IF Get(envs, AZURE_FEDERATED_TOKEN).some
    THEN [self EXCEPT !.federated_token = Some(Get(envs, AZURE_FEDERATED_TOKEN).val)]
    ELSE self

\* Variant: the tenant id is stored in the neighbouring client_id field.
LoadTenantIdIntoClientId(self, envs) ==
    IF Get(envs, AZURE_TENANT_ID).some
    THEN [self EXCEPT !.client_id = Some(Get(envs, AZURE_TENANT_ID).val)]
    ELSE self

\* Variant: the environment only fills a tenant id that is absent.
LoadTenantIdIfNone(self, envs) ==
    IF Get(envs, AZURE_TENANT_ID).some /\ ~self.tenant_id.some
    THEN [self EXCEPT !.tenant_id = Some(Get(envs, AZURE_TENANT_ID).val)]
    ELSE self

\* Variant: Option::xor where the assignment was meant.
LoadTenantIdXor(self, envs) ==
    IF Get(envs, AZURE_TENANT_ID).some
    THEN [self EXCEPT !.tenant_id =
             IF self.tenant_id.some THEN None
             ELSE Some(Get(envs, AZURE_TENANT_ID).val)]
    ELSE self

\* if let Some(v) = envs.get(AZURE_TENANT_ID) { ... }
LoadTenantId(self, envs) ==
    IF Get(envs, AZURE_TENANT_ID).some
    THEN [self EXCEPT !.tenant_id = Some(Get(envs, AZURE_TENANT_ID).val)]
    ELSE self

\* Variant: no else branch.
LoadAuthorityHostNoDefault(self, envs) ==
    IF Get(envs, AZURE_AUTHORITY_HOST_ENV_KEY).some
    THEN [self EXCEPT !.authority_host =
             Some(Get(envs, AZURE_AUTHORITY_HOST_ENV_KEY).val)]
    ELSE self

\* Variant: a value already present in the seed is kept.
LoadAuthorityHostKeepSeed(self, envs) ==
    IF self.authority_host.some THEN self
    ELSE IF Get(envs, AZURE_AUTHORITY_HOST_ENV_KEY).some
    THEN [self EXCEPT !.authority_host =
             Some(Get(envs, AZURE_AUTHORITY_HOST_ENV_KEY).val)]
    ELSE [self EXCEPT !.authority_host = Some(AZURE_PUBLIC_CLOUD)]

\* if let Some(v) = envs.get(AZURE_AUTHORITY_HOST_ENV_KEY) { ... } else { ... }
LoadAuthorityHost(self, envs) ==
    IF Get(envs, AZURE_AUTHORITY_HOST_ENV_KEY).some
    THEN [self EXCEPT !.authority_host =
             Some(Get(envs, AZURE_AUTHORITY_HOST_ENV_KEY).val)]
    ELSE [self EXCEPT !.authority_host = Some(AZURE_PUBLIC_CLOUD)]

\* Config::from_env on an environment env::vars() can iterate.
from_env(self, pe, fsys) ==
    LET envs == env_vars(pe) IN
    LoadAuthorityHost(
        LoadTenantId(
            LoadFederatedToken(
                LoadFederatedTokenFile(self, envs, fsys), envs), envs), envs)

(* ---------------------------- seeds ------------------------------------ *)

\* The eight static fields of a seed.
SeedStatics ==
    {f \in [StaticFields -> {None, Some(<<97>>)}] :
        \/ Cardinality({k \in StaticFields : f[k].some}) <= MaxPresent
        \/ \A k \in StaticFields : f[k].some}

\* Values a caller presets in the three fields from_env writes.
SeedTokens == {None, Some(<<>>), Some(<<115>>)}

SeedTenants == {None, Some(<<116>>)}

SeedHosts == {None, Some(<<104>>)}

Seeds ==
    {[f \in ConfigFields |->
        IF f \in StaticFields THEN st[f]
        ELSE IF f = "federated_token" THEN tok
        ELSE IF f = "tenant_id" THEN ten
        ELSE host] :
        st \in SeedStatics, tok \in SeedTokens, ten \in SeedTenants,
        host \in SeedHosts}

(* ---------------------------- state machine ---------------------------- *)

\* penv, fs: the process environment and the file system of the run.
\* cfg: the configuration the caller holds; arg: the value the last call
\* consumed; first: the result of the first call; calls: calls made;
\* status: how the last call ended; reads: file reads of the last call.
Init ==
    /\ penv \in ProcessEnvs
    /\ fs \in FileSystems
    /\ cfg \in Seeds
    /\ arg = cfg
    /\ first = None
    /\ calls = 0
    /\ status = "ready"
    /\ reads = 0

\* cfg = cfg.from_env(), returning.
FromEnv ==
    /\ status # "panicked"
    /\ calls < MaxCalls
    /\ EnvIsUnicode(penv)
    /\ arg' = cfg
    /\ cfg' = from_env(cfg, penv, fs)
    /\ first' = IF calls = 0 THEN Some(from_env(cfg, penv, fs)) ELSE first
    /\ reads' = FileReadCount(env_vars(penv))
    /\ calls' = calls + 1
    /\ status' = "returned"
    /\ UNCHANGED <<penv, fs>>

\* cfg.from_env() unwinding out of env::vars(): self is dropped, nothing
\* is returned.
FromEnvPanic ==
    /\ status # "panicked"
    /\ calls < MaxCalls
    /\ ~EnvIsUnicode(penv)
    /\ arg' = cfg
    /\ reads' = 0
    /\ calls' = calls + 1
    /\ status' = "panicked"
    /\ UNCHANGED <<penv, fs, cfg, first>>

Next == FromEnv \/ FromEnvPanic

Spec == Init /\ [][Next]_vars

(* ---------------------------- properties ------------------------------ *)

Returned == status = "returned"

IsSet(k) == penv[k].some

\* Whether fs::read_to_string succeeds on the path the file variable names.
TokenFileReadable ==
    IsSet(AZURE_FEDERATED_TOKEN_FILE)
    /\ read_to_string(fs, penv[AZURE_FEDERATED_TOKEN_FILE].val).ok

\* C1: whenever from_env returns, the eight static fields (account_name,
\* account_key, sas_token, object_id, client_id, msi_res_id, msi_secret,
\* endpoint) equal the values of the configuration the call consumed,
\* present or absent, whatever the environment and the token file.
C1_StaticFieldsUnchanged ==
    Returned => \A f \in StaticFields : cfg[f] = arg[f]

C1_Witness ==
    /\ Returned
    /\ \A f \in StaticFields : arg[f].some
    /\ IsSet(AZURE_TENANT_ID)
    /\ IsSet(AZURE_FEDERATED_TOKEN_FILE)
    /\ IsSet(AZURE_FEDERATED_TOKEN)
    /\ IsSet(AZURE_AUTHORITY_HOST_ENV_KEY)

\* C2: after from_env returns, authority_host is present.
C2_AuthorityHostPresent ==
    Returned => cfg.authority_host.some

C2_Witness ==
    /\ Returned
    /\ arg = ConfigDefault
    /\ \A k \in EnvKeys : ~IsSet(k)
    /\ cfg.authority_host.some

C5_UnreadableFileNeverFails ==
    (/\ calls >= 1
     /\ IsSet(AZURE_FEDERATED_TOKEN_FILE)
     /\ ~TokenFileReadable
     /\ ~IsSet(AZURE_FEDERATED_TOKEN))
        => /\ Returned
           /\ cfg.federated_token = Some(<<>>)
           /\ \A c \in {<<>>, <<102>>} : \A f \in ConfigFields \ {"federated_token"} :
                 cfg[f] = from_env(arg, penv, [fs EXCEPT ![TokenPath] = Some(c)])[f]

\* The part of C5 that concerns calls that return.
C5_ReturnedPart ==
    (/\ Returned
     /\ IsSet(AZURE_FEDERATED_TOKEN_FILE)
     /\ ~TokenFileReadable
     /\ ~IsSet(AZURE_FEDERATED_TOKEN))
        => /\ cfg.federated_token = Some(<<>>)
           /\ \A c \in {<<>>, <<102>>} : \A f \in ConfigFields \ {"federated_token"} :
                 cfg[f] = from_env(arg, penv, [fs EXCEPT ![TokenPath] = Some(c)])[f]

C8_Idempotent ==
    (Returned /\ calls >= 2) => (first.some /\ cfg = first.val)

C8_Witness ==
    /\ Returned
    /\ calls = 2
    /\ IsSet(AZURE_TENANT_ID)
    /\ TokenFileReadable
    /\ ~IsSet(AZURE_AUTHORITY_HOST_ENV_KEY)
    /\ first.some
    /\ cfg = first.val
    /\ cfg.tenant_id = Some(<<105>>)

\* C9: a federated_token already present in the consumed configuration has
\* the highest precedence: the resolved federated_token equals it even when
\* AZURE_FEDERATED_TOKEN or AZURE_FEDERATED_TOKEN_FILE is set.
C9_SeedTokenWins ==
    (Returned /\ arg.federated_token.some)
        => cfg.federated_token = arg.federated_token

\* C10: with neither AZURE_FEDERATED_TOKEN nor AZURE_FEDERATED_TOKEN_FILE
\* set, the resolved federated_token is the consumed configuration's
\* (present or absent) and no file is read; with AZURE_TENANT_ID_ENV_KEY
\* unset, the resolved tenant_id is the consumed configuration's.
C10_AbsentSourcesKeepSeed ==
    /\ (Returned /\ ~IsSet(AZURE_FEDERATED_TOKEN) /\ ~IsSet(AZURE_FEDERATED_TOKEN_FILE))
          => (cfg.federated_token = arg.federated_token /\ reads = 0)
    /\ (Returned /\ ~IsSet(AZURE_TENANT_ID))
          => cfg.tenant_id = arg.tenant_id

C10_Witness ==
    /\ Returned
    /\ calls = 1
    /\ ~IsSet(AZURE_FEDERATED_TOKEN)
    /\ ~IsSet(AZURE_FEDERATED_TOKEN_FILE)
    /\ ~IsSet(AZURE_TENANT_ID)
    /\ arg.federated_token = None
    /\ arg.tenant_id = Some(<<116>>)
    /\ cfg.federated_token = None
    /\ cfg.tenant_id = Some(<<116>>)

====
